---- MODULE Spec2Model ----
(***************************************************************************)
(* A model of smallsh (src/smallsh.c): the prompt loop of main, the        *)
(* built-ins, executeCommand's fork / bookkeeping / wait, the job table    *)
(* backgroundProcesses, cleanUpBackgroundProcesses, killBackgroundProcesses*)
(* and the signal policy of the shell and of its forked children.          *)
(*                                                                         *)
(* The shell is one sequential process (pc is its position in main).       *)
(* Children and signal deliveries are concurrent with it: every child step *)
(* and every signal delivery is an action of its own that may happen       *)
(* between any two steps of the shell.                                     *)
(***************************************************************************)
EXTENDS Integers, FiniteSets, Sequences, TLC

\* ------------------------------------------------------------- bounds
\* The job table holds TableBound slots in the model (500 in the source).
TableBound == 2
\* Process identifiers the operating system hands out: 1..MaxPid.  A pid is
\* handed out again once the child that held it has been reaped.
MaxPid == 2
\* The args array of a Command holds ArgBound + 1 pointers in the model (513
\* in the source).
ArgBound == 1
\* The lines typed in the model are at most LineBound characters long (2048
\* in the source); as in the source, such a line can hold more words than
\* the args array has room for.
LineBound == 9
\* The SIGTSTPs that arrive while SIGTSTP is blocked are counted up to
\* MaxDeferred.
MaxDeferred == 2

\* ---------------------------------------------------------- constants
MAX_NUM_BACKGROUND_PROCESSES == TableBound
MAX_NUM_ARGS == ArgBound
MAX_COMMAND_LENGTH == LineBound
RUN_IN_BACKGROUND_CHAR == "&"
REDIRECT_INPUT == <<"<">>
REDIRECT_OUTPUT == <<">">>
NULL_IO == <<"/dev/null">>
SIGINT == 2
SIGKILL == 9
EXITED_MESSAGE == "exit value"
TERMINATED_MESSAGE == "terminated by signal"
ENTER_FOREGROUND_MODE_MESSAGE == "Entering foreground-only mode (& is now ignored)"
EXIT_FOREGROUND_MODE_MESSAGE == "Exiting foreground-only mode"

Pids == 1..MaxPid
Slots == 0..(MAX_NUM_BACKGROUND_PROCESSES - 1)

\* A wait status, as waitpid stores it in childStatus.
Exited(n) == [kind |-> "exit", val |-> n]
Signaled(n) == [kind |-> "sig", val |-> n]
WIFEXITED(s) == s.kind = "exit"
WIFSIGNALED(s) == s.kind = "sig"
WEXITSTATUS(s) == s.val
WTERMSIG(s) == s.val

\* Exit codes of a program that ran (execvp succeeded).
ProgramExitCodes == {0, 1}

\* What printStatus writes for a wait status.
printStatus(s) ==
    IF WIFEXITED(s) THEN <<EXITED_MESSAGE, WEXITSTATUS(s)>>
                    ELSE <<TERMINATED_MESSAGE, WTERMSIG(s)>>

NoMessage == <<"none", 0>>

VARIABLES
    pc,              \* the shell's position in main / executeCommand
    cmd,             \* the Command parsed from the current line
    backgroundProcesses, \* the job table: slot -> pid, 0 is a free slot
    childStatus,     \* the global wait status (Last Status)
    foregroundMode,  \* the foreground-only flag, 0 or 1
    blocked,         \* SIGTSTP is in the shell's signal mask
    pending,         \* a SIGTSTP is pending on the shell
    spawnPid,        \* executeCommand's spawnPid (0 outside executeCommand)
    overflow,        \* executeCommand took the table-full branch
    errno,           \* errno as left by the last failing kill
    exitStatus,      \* the shell's exit status once pc = "done"
    proc,            \* pid -> the child process holding it
    waited,          \* how the child reaped by executeCommand's waitpid ended
    printed,         \* what status printed, if it was the last command line
    reapedBetween,   \* a child was reaped since status printed that
    quietRepeat,     \* status ran on two lines in a row, no reap in between
    lastDone,        \* pid of the 'background pid N is done' line just printed
    notice,          \* the notice handle_SIGTSTP wrote last
    deferred,        \* SIGTSTPs that arrived while executeCommand had it blocked
    reported,        \* what executeCommand printed for its foreground child
    userInput,       \* getInput's buffer: the characters of the line so far
    command          \* the Command parseCommand filled from userInput

vars == <<pc, cmd, backgroundProcesses, childStatus, foregroundMode, blocked,
          pending, spawnPid, overflow, errno, exitStatus, proc, waited,
          printed, reapedBetween, quietRepeat, lastDone, notice, deferred,
          reported, userInput, command>>

\* Groups of variables, for UNCHANGED.
signalVars == <<foregroundMode, blocked, pending, notice>>
statusVars == <<printed, reapedBetween, quietRepeat>>
localVars == <<spawnPid, overflow, waited, deferred, reported>>
readerVars == <<userInput, command>>
shellVars == <<pc, cmd, backgroundProcesses, childStatus, foregroundMode,
               blocked, pending, spawnPid, overflow, errno, exitStatus,
               waited, printed, reapedBetween, quietRepeat, lastDone,
               notice, deferred, reported, userInput, command>>

\* ------------------------------------------------------------ children
\* A child is forked, has set its signals (registerChildSignalHandlers
\* returned), runs the program (execvp succeeded), or has terminated and
\* waits to be reaped (zombie).  free: no process holds the pid.
Live == {"forked", "registered", "running"}
PreExec == {"forked", "registered"}
Unreaped == Live \cup {"zombie"}

NoProc ==
    [st |-> "free", bg |-> FALSE, status |-> Exited(0), cause |-> "none",
     sigint |-> "IGN", sigtstp |-> "IGN", fgMode |-> 0, killed |-> FALSE,
     ignoredInt |-> FALSE]

NoCmd == [kind |-> "none", runInBackground |-> FALSE]

\* A null pointer, where a word (a non-empty sequence of characters) may be.
NULL == << >>

\* main, line 90: the Command as calloc returns it, every byte zero.
\* stored counts the pointers written through args[i]; outside tells that
\* one of them went behind the end of the struct.
NoCommand ==
    [parsed |-> FALSE, args |-> [i \in 0..MAX_NUM_ARGS |-> NULL],
     inputFile |-> NULL, outputFile |-> NULL, runInBackground |-> FALSE,
     stored |-> 0, outside |-> FALSE]

\* ------------------------------------------------------ signal policy
\* registerParentSignalHandlers: handle_SIGTSTP catches SIGTSTP, SIGINT is
\* ignored.
ParentDisposition == [sigtstp |-> "HANDLER", sigint |-> "IGN"]

\* The state once main has called registerParentSignalHandlers.
Init ==
    /\ pc = "prompt"
    /\ cmd = NoCmd
    /\ backgroundProcesses = [i \in Slots |-> 0]
    /\ childStatus = Exited(0)
    /\ foregroundMode = 0
    /\ blocked = FALSE
    /\ pending = FALSE
    /\ spawnPid = 0
    /\ overflow = FALSE
    /\ errno = "none"
    /\ exitStatus = 0
    /\ proc = [p \in Pids |-> NoProc]
    /\ printed = NoMessage
    /\ waited = "none"
    /\ reapedBetween = FALSE
    /\ quietRepeat = FALSE
    /\ lastDone = 0
    /\ notice = "none"
    /\ deferred = 0
    /\ reported = NoMessage
    /\ userInput = << >>
    /\ command = NoCommand

ShellRuns == pc \notin {"done", "killed", "crashed"}

\* ------------------------------------------------------------- parsing
\* parseCommand, lines 295-302: runInBackground is set when the line ends
\* with '&' and the foreground-only flag is clear as the line is parsed.
RunInBackground(lastIsAmp, fgMode) == lastIsAmp /\ fgMode = 0

\* parseCommand for a line of kind k (the kind is decided on args[0] in
\* main, lines 93-129).
parseCommand(k, lastIsAmp) ==
    [kind |-> k, runInBackground |-> RunInBackground(lastIsAmp, foregroundMode)]

\* parseCommand, lines 333-337: whether the command has an input (output)
\* path, given whether the line names one: a background command gets
\* /dev/null for a path the line did not give.
HasPath(given, runInBackground) == given \/ runInBackground

LineKinds == {"blank", "exit", "cd", "status", "ext"}

\* main, lines 84-91: a complete line is read and parsed.
ReadLine ==
    /\ pc = "prompt"
    /\ \E k \in LineKinds, amp \in BOOLEAN :
          /\ k # "ext" => ~amp
          /\ cmd' = parseCommand(k, amp)
    /\ pc' = "dispatch"
    /\ UNCHANGED <<backgroundProcesses, childStatus, signalVars, localVars,
                   errno, exitStatus, proc, statusVars, lastDone>>
    /\ UNCHANGED readerVars

\* getInput, lines 251-278, at the end of standard input: every fgetc
\* returns EOF.  Where errno still holds EINTR from an earlier read, getInput
\* returns -1 and main calls it again; else the loop stores the character
\* and reads on.  Neither way ends: no line is complete again, and main
\* reaches neither exit nor cleanUpBackgroundProcesses.
EndOfInput ==
    /\ pc = "prompt"
    /\ pc' = "eof"
    /\ UNCHANGED <<cmd, backgroundProcesses, childStatus, signalVars, localVars,
                   errno, exitStatus, proc, statusVars, lastDone, readerVars>>

\* getInput, lines 276-277, at the end of input: no test keeps offset inside
\* the buffer of MAX_COMMAND_LENGTH + 1 bytes, and a store far enough behind
\* it faults.  (That the loop goes on instead is no change of state.)
EndOfInputOverrun ==
    /\ pc = "eof"
    /\ pc' = "crashed"
    /\ UNCHANGED <<cmd, backgroundProcesses, childStatus, signalVars, localVars,
                   errno, exitStatus, proc, statusVars, lastDone, readerVars>>

\* ------------------------------------------------------- the job table
\* The value a read of backgroundProcesses[i] yields.  Index
\* MAX_NUM_BACKGROUND_PROCESSES is one past the array: that read yields
\* whatever lies behind the array, junk.
SlotRead(tbl, i, junk) == IF i \in Slots THEN tbl[i] ELSE junk

\* executeCommand, lines 464-467: the free-slot search.  The array is read
\* before the index is compared with the capacity.
RECURSIVE FreeSlotSearch(_, _, _)
FreeSlotSearch(tbl, it, junk) ==
    IF SlotRead(tbl, it, junk) # 0 /\ it < MAX_NUM_BACKGROUND_PROCESSES
    THEN FreeSlotSearch(tbl, it + 1, junk)
    ELSE it

\* executeCommand, line 464: the indices at which the free-slot search
\* started at it reads the array.  Index it is read whatever it is, and the
\* search goes on to it + 1 when the value read is non-zero and it is below
\* the capacity.
RECURSIVE SearchReads(_, _, _)
SearchReads(tbl, it, junk) ==
    {it} \cup (IF SlotRead(tbl, it, junk) # 0
                  /\ it < MAX_NUM_BACKGROUND_PROCESSES
               THEN SearchReads(tbl, it + 1, junk)
               ELSE {})

\* executeCommand, lines 469-475: the index the new pid is written at.
InsertIndex(it) == IF it = MAX_NUM_BACKGROUND_PROCESSES THEN 0 ELSE it

\* cleanUpBackgroundProcesses, line 356, and killBackgroundProcesses, line
\* 372: the indices the for loops from i on visit.
RECURSIVE LoopIndices(_)
LoopIndices(i) ==
    IF i < MAX_NUM_BACKGROUND_PROCESSES THEN {i} \cup LoopIndices(i + 1)
                                        ELSE {}

\* cleanUpBackgroundProcesses, lines 356-363: the first slot holding
\* childPid is cleared.
RECURSIVE RemoveFrom(_, _, _)
RemoveFrom(tbl, i, childPid) ==
    IF i >= MAX_NUM_BACKGROUND_PROCESSES THEN tbl
    ELSE IF tbl[i] = childPid THEN [tbl EXCEPT ![i] = 0]
    ELSE RemoveFrom(tbl, i + 1, childPid)

RemovePid(tbl, childPid) == RemoveFrom(tbl, 0, childPid)

InTable(p) == \E i \in Slots : backgroundProcesses[i] = p

\* ---------------------------------------------------------------- kill
\* What kill(pid, SIGKILL) can return for a pid of the table: 0 for a child
\* not yet reaped, EPERM when the program the child runs has changed its
\* credentials, ESRCH when no process holds the pid.
KillResults == {"ok", "ESRCH", "EPERM"}

KillOutcomes(pid) ==
    IF proc[pid].st = "running" THEN {"ok", "EPERM"}
    ELSE IF proc[pid].st \in Unreaped THEN {"ok"}
    ELSE {"ESRCH"}

\* The results the kill calls of one sweep over tbl can have, slot by slot.
SweepResults(tbl) ==
    {res \in [Slots -> KillResults] :
        \A i \in Slots : res[i] \in (IF tbl[i] = 0 THEN {"ok"}
                                     ELSE KillOutcomes(tbl[i]))}

\* A variant of KillErrorIsFatal under which every failure of kill ends the
\* shell.
KillErrorAlwaysFatal(e) == e \in KillResults

\* killBackgroundProcesses, line 377: which failure of kill ends the shell.
KillErrorIsFatal(e) == e # "ESRCH"

NoSweep == [fatal |-> FALSE, hit |-> {}, errno |-> errno]

\* killBackgroundProcesses, lines 372-383, from slot i on: acc collects the
\* pids signalled, errno, and whether the sweep ended in exit(1).
RECURSIVE KillFrom(_, _, _, _)
KillFrom(tbl, i, res, acc) ==
    IF i >= MAX_NUM_BACKGROUND_PROCESSES THEN acc
    ELSE IF tbl[i] = 0 THEN KillFrom(tbl, i + 1, res, acc)
    ELSE IF res[i] = "ok"
         THEN KillFrom(tbl, i + 1, res, [acc EXCEPT !.hit = @ \cup {tbl[i]}])
    ELSE IF KillErrorIsFatal(res[i])
         THEN [acc EXCEPT !.errno = res[i], !.fatal = TRUE]
    ELSE KillFrom(tbl, i + 1, res, [acc EXCEPT !.errno = res[i]])

\* killBackgroundProcesses, lines 372-383, from slot i on: the pids kill is
\* called with, up to the call that ends the shell.
RECURSIVE KillTargetsFrom(_, _, _)
KillTargetsFrom(tbl, i, res) ==
    IF i >= MAX_NUM_BACKGROUND_PROCESSES THEN {}
    ELSE IF tbl[i] = 0 THEN KillTargetsFrom(tbl, i + 1, res)
    ELSE IF res[i] # "ok" /\ KillErrorIsFatal(res[i]) THEN {tbl[i]}
    ELSE {tbl[i]} \cup KillTargetsFrom(tbl, i + 1, res)

\* A variant of killBackgroundProcesses whose sweep starts at slot 1.
killBackgroundProcessesFromSlotOne(tbl, res) == KillFrom(tbl, 1, res, NoSweep)

killBackgroundProcesses(tbl, res) == KillFrom(tbl, 0, res, NoSweep)

\* The children after a sweep: every child not yet reaped that was
\* signalled has a SIGKILL sent to it.
AfterKill(pr, hit) ==
    [p \in Pids |-> IF p \in hit /\ pr[p].st \in Unreaped
                    THEN [pr[p] EXCEPT !.killed = TRUE] ELSE pr[p]]

\* --------------------------------------------------------- the handler
\* handle_SIGTSTP, line 220: foregroundMode ^= 1.
Toggle(f) == (f + 1) % 2

\* A variant of HandlerMessage that picks the notice by the flag as it is
\* after the flip.
HandlerMessageAfterFlip(f) ==
    IF Toggle(f) # 0 THEN EXIT_FOREGROUND_MODE_MESSAGE
                     ELSE ENTER_FOREGROUND_MODE_MESSAGE

\* handle_SIGTSTP, lines 216-217: the notice is picked by the flag as it is
\* before the flip.
HandlerMessage(f) ==
    IF f # 0 THEN EXIT_FOREGROUND_MODE_MESSAGE
             ELSE ENTER_FOREGROUND_MODE_MESSAGE

\* handle_SIGTSTP, lines 214-239, run on the flag f: the flag after it and
\* the notice it writes.  Every signal is masked while it runs.
handle_SIGTSTP(f) ==
    [foregroundMode |-> Toggle(f), notice |-> HandlerMessage(f)]

\* A variant of HeldByMask: the mask holds nothing back.
HeldByNoMask(mask) == FALSE

\* blockSIGTSTP, line 515: a SIGTSTP that arrives while SIGTSTP is in the
\* signal mask stays pending.
HeldByMask(mask) == mask

\* A variant of DeliveredOnUnblock: the pending signal is dropped.
DroppedOnUnblock(pend) == FALSE

\* unblockSIGTSTP, line 528: a pending SIGTSTP is delivered as SIGTSTP
\* leaves the mask, once however many have arrived.
DeliveredOnUnblock(pend) == pend

\* One more SIGTSTP has arrived while blocked.
CountDeferred(n) == IF n < MaxDeferred THEN n + 1 ELSE MaxDeferred

\* A SIGTSTP is sent to the shell: pending while blocked, else
\* handle_SIGTSTP runs.  At the prompt the interrupted getInput returns -1
\* and main starts the loop again.
ShellSIGTSTP ==
    /\ ShellRuns
    /\ IF HeldByMask(blocked)
       THEN /\ pending' = TRUE
            /\ deferred' = CountDeferred(deferred)
            /\ UNCHANGED <<foregroundMode, notice>>
       ELSE /\ foregroundMode' = handle_SIGTSTP(foregroundMode).foregroundMode
            /\ notice' = handle_SIGTSTP(foregroundMode).notice
            /\ UNCHANGED <<pending, deferred>>
    /\ UNCHANGED <<pc, cmd, backgroundProcesses, childStatus, blocked,
                   spawnPid, overflow, waited, reported, errno, exitStatus,
                   proc, statusVars, lastDone>>
    /\ UNCHANGED readerVars

\* A SIGINT is sent to the shell.
ShellSIGINT ==
    /\ ShellRuns
    /\ pc' = IF ParentDisposition.sigint = "IGN" THEN pc ELSE "killed"
    /\ UNCHANGED <<cmd, backgroundProcesses, childStatus, signalVars,
                   localVars, errno, exitStatus, proc, statusVars, lastDone>>
    /\ UNCHANGED readerVars

\* ------------------------------------------------------------ built-ins
\* A variant of AfterSkippedLine: straight back to the prompt.
AfterSkippedLineNoCleanUp == "prompt"

\* main, lines 96-102: for a blank or comment line main calls
\* cleanUpBackgroundProcesses (line 98) before it continues the loop.
AfterSkippedLine == "clean"

\* main, lines 96-102: a blank line or a comment; only the reaping runs.
BlankLine ==
    /\ pc = "dispatch" /\ cmd.kind = "blank"
    /\ pc' = AfterSkippedLine
    /\ UNCHANGED <<cmd, backgroundProcesses, childStatus, signalVars,
                   localVars, errno, exitStatus, proc, statusVars, lastDone>>
    /\ UNCHANGED readerVars

\* main, lines 105-111: exit.  A kill that fails with anything but ESRCH
\* ends the shell with exit(1) inside killBackgroundProcesses.
ExitBuiltin ==
    /\ pc = "dispatch" /\ cmd.kind = "exit"
    /\ \E res \in SweepResults(backgroundProcesses) :
          LET k == killBackgroundProcesses(backgroundProcesses, res)
          IN  /\ proc' = AfterKill(proc, k.hit)
              /\ errno' = k.errno
              /\ exitStatus' = IF k.fatal THEN 1 ELSE 0
    /\ pc' = "done"
    /\ printed' = NoMessage
    /\ reapedBetween' = FALSE /\ quietRepeat' = FALSE
    /\ UNCHANGED <<cmd, backgroundProcesses, childStatus, signalVars,
                   localVars, lastDone>>
    /\ UNCHANGED readerVars

\* main, lines 114-117 and 132: cd, then the reaping starts.
ChangeDirectory ==
    /\ pc = "dispatch" /\ cmd.kind = "cd"
    /\ pc' = "clean"
    /\ printed' = NoMessage
    /\ reapedBetween' = FALSE /\ quietRepeat' = FALSE
    /\ UNCHANGED <<cmd, backgroundProcesses, childStatus, signalVars,
                   localVars, errno, exitStatus, proc, lastDone>>
    /\ UNCHANGED readerVars

\* main, lines 120-123 and 132: status prints Last Status, then the reaping
\* starts.
StatusBuiltin ==
    /\ pc = "dispatch" /\ cmd.kind = "status"
    /\ printed' = printStatus(childStatus)
    /\ quietRepeat' = (printed # NoMessage /\ ~reapedBetween)
    /\ reapedBetween' = FALSE
    /\ pc' = "clean"
    /\ UNCHANGED <<cmd, backgroundProcesses, childStatus, signalVars,
                   localVars, errno, exitStatus, proc, lastDone>>
    /\ UNCHANGED readerVars

\* ------------------------------------------------------- executeCommand
\* fork's child: a copy of the shell, with its command, its signal
\* dispositions, its signal mask (SIGTSTP not blocked) and its flag.
NewChild ==
    [NoProc EXCEPT !.st = "forked", !.bg = cmd.runInBackground,
                   !.sigint = ParentDisposition.sigint,
                   !.sigtstp = ParentDisposition.sigtstp,
                   !.fgMode = foregroundMode]

\* The pids fork can return: any pid no process holds.  Those the job
\* table does not name are alike, and the least stands for them all.
FreePids ==
    LET free == {p \in Pids : proc[p].st = "free"}
        fresh == {p \in free : ~InTable(p)}
    IN  (free \ fresh) \cup {p \in fresh : \A q \in fresh : p <= q}

\* executeCommand, line 430: fork returns the child's pid in the parent.
Fork ==
    /\ pc = "dispatch" /\ cmd.kind = "ext"
    /\ \E p \in FreePids :
          /\ proc' = [proc EXCEPT ![p] = NewChild]
          /\ spawnPid' = p
    /\ pc' = "parent"
    /\ printed' = NoMessage
    /\ reapedBetween' = FALSE /\ quietRepeat' = FALSE
    /\ UNCHANGED <<cmd, backgroundProcesses, childStatus, signalVars,
                   overflow, waited, errno, exitStatus, lastDone>>
    /\ UNCHANGED <<deferred, reported>>
    /\ UNCHANGED readerVars

\* executeCommand, lines 438-441: fork fails, exit(1).
ForkFails ==
    /\ pc = "dispatch" /\ cmd.kind = "ext"
    /\ pc' = "done"
    /\ exitStatus' = 1
    /\ printed' = NoMessage
    /\ reapedBetween' = FALSE /\ quietRepeat' = FALSE
    /\ UNCHANGED <<cmd, backgroundProcesses, childStatus, signalVars,
                   localVars, errno, proc, lastDone>>
    /\ UNCHANGED readerVars

\* executeCommand, lines 458-479: SIGTSTP is blocked; a background child is
\* stored in the first free slot; with no free slot every pid of the table
\* is killed and slot 0 is taken.  A foreground command stores nothing.
StoreBackgroundProcess ==
    /\ pc = "parent"
    /\ blocked' = TRUE
    /\ IF ~cmd.runInBackground
       THEN /\ pc' = "wait"
            /\ UNCHANGED <<backgroundProcesses, overflow, errno, exitStatus,
                           proc>>
       ELSE \E junk \in {0, 1} :
            LET it == FreeSlotSearch(backgroundProcesses, 0, junk)
            IN  IF it = MAX_NUM_BACKGROUND_PROCESSES
                THEN \E res \in SweepResults(backgroundProcesses) :
                     LET k == killBackgroundProcesses(backgroundProcesses, res)
                     IN  /\ proc' = AfterKill(proc, k.hit)
                         /\ errno' = k.errno
                         /\ IF k.fatal
                            THEN /\ pc' = "done"
                                 /\ exitStatus' = 1
                                 /\ UNCHANGED <<backgroundProcesses, overflow>>
                            ELSE /\ pc' = "wait"
                                 /\ overflow' = TRUE
                                 /\ backgroundProcesses' =
                                      [backgroundProcesses EXCEPT ![0] = spawnPid]
                                 /\ UNCHANGED exitStatus
                ELSE /\ backgroundProcesses' =
                          [backgroundProcesses EXCEPT ![it] = spawnPid]
                     /\ pc' = "wait"
                     /\ UNCHANGED <<overflow, errno, exitStatus, proc>>
    /\ UNCHANGED <<cmd, childStatus, foregroundMode, pending, spawnPid,
                   waited, statusVars, lastDone>>
    /\ UNCHANGED <<notice, deferred, reported>>
    /\ UNCHANGED readerVars

\* A variant of WaitStatus under which a waitpid that finds no child writes
\* to the status all the same.
WaitStatusDisturbed(old, found, st) ==
    IF found THEN st ELSE Exited((old.val + 1) % 2)

\* waitpid(pid, &childStatus, WNOHANG) on a child that has not terminated
\* returns 0 and leaves childStatus alone; on a terminated child it reaps
\* it, stores its status and returns its pid.
WaitStatus(old, found, st) == IF found THEN st ELSE old

\* A variant of ForegroundReport that reports every foreground child.
ForegroundReportAlways(bg, st) ==
    IF ~bg THEN printStatus(st) ELSE NoMessage

\* executeCommand, lines 486-489: printStatus is called for a foreground
\* command when childStatus says the child was terminated by a signal.
ForegroundReport(bg, st) ==
    IF ~bg /\ WIFSIGNALED(st) THEN printStatus(st) ELSE NoMessage

\* executeCommand, lines 483-492: the wait (without WNOHANG it returns when
\* the child has terminated), the report of a foreground child killed by a
\* signal, and unblockSIGTSTP: a pending SIGTSTP is delivered before
\* sigprocmask returns.
WaitForChild ==
    /\ pc = "wait"
    /\ LET found == proc[spawnPid].st = "zombie"
       IN  /\ cmd.runInBackground \/ found
           /\ childStatus' = WaitStatus(childStatus, found, proc[spawnPid].status)
           /\ proc' = IF found THEN [proc EXCEPT ![spawnPid] = NoProc]
                               ELSE proc
           /\ spawnPid' = IF found THEN spawnPid ELSE 0
           /\ waited' = IF found THEN proc[spawnPid].cause ELSE "none"
           /\ reported' = ForegroundReport(cmd.runInBackground, childStatus')
    /\ blocked' = FALSE
    /\ pending' = FALSE
    /\ IF DeliveredOnUnblock(pending)
       THEN /\ foregroundMode' = handle_SIGTSTP(foregroundMode).foregroundMode
            /\ notice' = handle_SIGTSTP(foregroundMode).notice
       ELSE UNCHANGED <<foregroundMode, notice>>
    /\ pc' = "returned"
    /\ UNCHANGED <<cmd, backgroundProcesses, overflow, errno, exitStatus,
                   statusVars, lastDone, deferred>>
    /\ UNCHANGED readerVars

\* ------------------------------------------- cleanUpBackgroundProcesses
\* One turn of the loop, lines 349-364: waitpid(-1, WNOHANG) finds a
\* terminated child, its line is printed and its pid removed.
CleanUpReap ==
    /\ pc \in {"returned", "clean"}
    /\ \E p \in Pids :
          /\ proc[p].st = "zombie"
          /\ childStatus' = WaitStatus(childStatus, TRUE, proc[p].status)
          /\ proc' = [proc EXCEPT ![p] = NoProc]
          /\ backgroundProcesses' = RemovePid(backgroundProcesses, p)
          /\ lastDone' = p
    /\ pc' = "clean"
    /\ spawnPid' = 0 /\ overflow' = FALSE
    /\ reapedBetween' = (printed # NoMessage)
    /\ UNCHANGED <<cmd, signalVars, waited, errno, exitStatus, printed,
                   quietRepeat>>
    /\ deferred' = 0 /\ reported' = NoMessage
    /\ UNCHANGED readerVars

\* waitpid finds no terminated child: the loop ends, main prints the prompt.
CleanUpDone ==
    /\ pc \in {"returned", "clean"}
    /\ \A p \in Pids : proc[p].st # "zombie"
    /\ childStatus' = WaitStatus(childStatus, FALSE, childStatus)
    /\ pc' = "prompt"
    /\ cmd' = NoCmd
    /\ spawnPid' = 0 /\ overflow' = FALSE /\ waited' = "none"
    /\ lastDone' = 0
    /\ UNCHANGED <<backgroundProcesses, signalVars, errno, exitStatus, proc,
                   statusVars>>
    /\ deferred' = 0 /\ reported' = NoMessage
    /\ UNCHANGED readerVars

\* ------------------------------------------------------------ children
\* A child ends: its memory is gone, its status waits to be collected.
Terminated(q, s, why) ==
    [q EXCEPT !.st = "zombie", !.status = s, !.cause = why,
              !.sigint = "IGN", !.sigtstp = "IGN", !.fgMode = 0,
              !.ignoredInt = FALSE]

\* A variant of FailureStatus: the failing child ends with exit(0).
FailureStatusZero == Exited(0)

\* The exit status of a child whose open or execvp failed: exit(1).
FailureStatus == Exited(1)

\* How a child ends whose redirectIO or execvp failed.
FailureCauses == {"open input", "open output", "execvp"}

\* A variant of ChildSigintDisposition: every child gets the default action.
ChildSigintDispositionDefault(bg, inherited) == "DFL"

\* registerChildSignalHandlers, lines 191-199: SIGINT gets its default
\* action in a foreground child and stays as inherited in a background one.
ChildSigintDisposition(bg, inherited) == IF ~bg THEN "DFL" ELSE inherited

\* executeCommand, lines 445-446, in the child: redirectIO (a failing open
\* is exit(1)) and then registerChildSignalHandlers, after which the child
\* reads its copy of the flag no more.  Only the child reads the paths of
\* the command: whether the line named them is drawn here.
ChildRedirectAndRegister(p) ==
    /\ proc[p].st = "forked" /\ ~proc[p].killed
    /\ \/ proc' = [proc EXCEPT
                     ![p].st = "registered",
                     ![p].sigint = ChildSigintDisposition(proc[p].bg, @),
                     ![p].sigtstp = "IGN",
                     ![p].fgMode = 0,
                     ![p].ignoredInt = FALSE]
       \/ /\ \E given \in BOOLEAN : HasPath(given, proc[p].bg)
          /\ proc' = [proc EXCEPT ![p] = Terminated(@, FailureStatus, "open input")]
       \/ /\ \E given \in BOOLEAN : HasPath(given, proc[p].bg)
          /\ proc' = [proc EXCEPT ![p] = Terminated(@, FailureStatus, "open output")]
    /\ UNCHANGED shellVars

\* executeCommand, lines 448-452, in the child: execvp replaces the image
\* (ignored signals stay ignored), or fails and the child exits.
ChildExec(p) ==
    /\ proc[p].st = "registered" /\ ~proc[p].killed
    /\ \/ proc' = [proc EXCEPT ![p].st = "running"]
       \/ proc' = [proc EXCEPT ![p] = Terminated(@, FailureStatus, "execvp")]
    /\ UNCHANGED shellVars

\* The program the child runs ends.
ChildExits(p) ==
    /\ proc[p].st = "running" /\ ~proc[p].killed
    /\ \E c \in ProgramExitCodes :
          proc' = [proc EXCEPT ![p] = Terminated(@, Exited(c), "program")]
    /\ UNCHANGED shellVars

\* A SIGTSTP is sent to a child that still has the inherited disposition:
\* handle_SIGTSTP runs in the child and flips the child's copy of the flag.
ChildSIGTSTP(p) ==
    /\ proc[p].st \in PreExec /\ ~proc[p].killed
    /\ proc[p].sigtstp = "HANDLER"
    /\ proc' = [proc EXCEPT ![p].fgMode = Toggle(@)]
    /\ UNCHANGED shellVars

\* A SIGINT is sent to a child: the default action terminates it.
ChildSIGINT(p) ==
    /\ proc[p].st \in Live /\ ~proc[p].killed
    /\ proc' = IF proc[p].sigint = "DFL"
               THEN [proc EXCEPT ![p] = Terminated(@, Signaled(SIGINT), "SIGINT")]
               ELSE [proc EXCEPT ![p].ignoredInt =
                                    (proc[p].bg /\ proc[p].st = "forked")]
    /\ UNCHANGED shellVars

\* The SIGKILL the shell sent takes effect.
ChildKilled(p) ==
    /\ proc[p].st \in Live /\ proc[p].killed
    /\ proc' = [proc EXCEPT ![p] = Terminated(@, Signaled(SIGKILL), "SIGKILL")]
    /\ UNCHANGED shellVars

\* The children are followed while the shell runs.
Child ==
    \E p \in Pids :
        /\ ShellRuns
        /\ \/ ChildRedirectAndRegister(p)
           \/ ChildExec(p)
           \/ ChildExits(p)
           \/ ChildSIGTSTP(p)
           \/ ChildSIGINT(p)
           \/ ChildKilled(p)

Next ==
    \/ ReadLine
    \/ EndOfInput
    \/ EndOfInputOverrun
    \/ ShellSIGTSTP
    \/ ShellSIGINT
    \/ BlankLine
    \/ ExitBuiltin
    \/ ChangeDirectory
    \/ StatusBuiltin
    \/ Fork
    \/ ForkFails
    \/ StoreBackgroundProcess
    \/ WaitForChild
    \/ CleanUpReap
    \/ CleanUpDone
    \/ Child

Spec == Init /\ [][Next]_vars

\* The shell, its children and the signals keep taking steps while any is
\* possible.
FairSpec == Spec /\ WF_vars(Next)

\* ============================================== getInput and parseCommand
\* The second view of the prompt loop: the line is followed character by
\* character and parseCommand word by word.  The characters typed:
Chars == {"a", " ", "&", "<"}

\* parseCommand, line 295: the last character of the line is '&'.
LastIsAmp(s) == Len(s) > 0 /\ s[Len(s)] = RUN_IN_BACKGROUND_CHAR

\* parseCommand, line 301: the '&' is overwritten with the terminator.
StripAmp(s) == IF LastIsAmp(s) THEN SubSeq(s, 1, Len(s) - 1) ELSE s

\* strtok(..., " "), lines 306 and 311: the words of s from position k on;
\* cur is the word being read, acc the words before it.
RECURSIVE TokensFrom(_, _, _, _)
TokensFrom(s, k, cur, acc) ==
    LET ended == IF cur = NULL THEN acc ELSE Append(acc, cur)
    IN  IF k > Len(s) THEN ended
        ELSE IF s[k] = " " THEN TokensFrom(s, k + 1, NULL, ended)
        ELSE TokensFrom(s, k + 1, Append(cur, s[k]), acc)

Tokens(s) == TokensFrom(s, 1, NULL, << >>)

\* command->args[i] = token, lines 307 and 327, with the Command laid out
\* as declared (lines 34-41): args[0..MAX_NUM_ARGS], inputFile, outputFile,
\* runInBackground.  An index past the array lands on the field that lies
\* there; what a pointer stored over runInBackground reads as is junk.
StoreArg(c, i, token, junk) ==
    LET d == [c EXCEPT !.stored = @ + 1]
    IN  IF i <= MAX_NUM_ARGS THEN [d EXCEPT !.args[i] = token]
        ELSE IF i = MAX_NUM_ARGS + 1 THEN [d EXCEPT !.inputFile = token]
        ELSE IF i = MAX_NUM_ARGS + 2 THEN [d EXCEPT !.outputFile = token]
        ELSE IF i = MAX_NUM_ARGS + 3 THEN [d EXCEPT !.runInBackground = junk]
        ELSE [d EXCEPT !.outside = TRUE]

\* strtok(NULL, " ") for the word after toks[k]: NULL when there is none.
TokenAfter(toks, k) == IF k + 1 <= Len(toks) THEN toks[k + 1] ELSE NULL

\* parseCommand, lines 310-330: the words after the first, from toks[k] on,
\* with i the next index of args.
RECURSIVE FillArgs(_, _, _, _, _)
FillArgs(toks, k, c, i, junk) ==
    IF k > Len(toks) THEN c
    ELSE IF toks[k] = REDIRECT_INPUT
         THEN FillArgs(toks, k + 2,
                       [c EXCEPT !.inputFile = TokenAfter(toks, k)], i, junk)
    ELSE IF toks[k] = REDIRECT_OUTPUT
         THEN FillArgs(toks, k + 2,
                       [c EXCEPT !.outputFile = TokenAfter(toks, k)], i, junk)
    ELSE FillArgs(toks, k + 1, StoreArg(c, i, toks[k], junk), i + 1, junk)

\* parseCommand, lines 333-337: /dev/null for a path a background command
\* did not name.
DefaultPath(path) == IF path = NULL THEN NULL_IO ELSE path

\* parseCommand, lines 290-338, on the line s with the flag fgMode.
parseUserInput(s, fgMode, junk) ==
    LET toks == Tokens(StripAmp(s))
        first == IF toks = << >> THEN NULL ELSE toks[1]
        c0 == [NoCommand EXCEPT
                 !.parsed = TRUE,
                 !.runInBackground = RunInBackground(LastIsAmp(s), fgMode)]
        c1 == IF first = NULL THEN c0 ELSE StoreArg(c0, 0, first, junk)
        c2 == FillArgs(toks, 2, c1, 1, junk)
    IN  IF c2.runInBackground
        THEN [c2 EXCEPT !.inputFile = DefaultPath(@),
                        !.outputFile = DefaultPath(@)]
        ELSE c2

\* What the second view leaves alone.
loopVars == <<pc, cmd, backgroundProcesses, childStatus, blocked, pending,
              spawnPid, overflow, errno, exitStatus, proc, waited, printed,
              reapedBetween, quietRepeat, lastDone, deferred, reported>>

Reading == pc = "prompt" /\ ~command.parsed

\* getInput, lines 251-278: one more character of the line is read.
GetInputChar ==
    /\ Reading
    /\ Len(userInput) < MAX_COMMAND_LENGTH
    /\ \E c \in Chars : userInput' = Append(userInput, c)
    /\ UNCHANGED <<loopVars, foregroundMode, notice, command>>

\* getInput, lines 254-257, and main, lines 84-88: a SIGTSTP interrupts the
\* read; handle_SIGTSTP runs, getInput returns -1, main drops the buffer
\* and starts the loop again.
GetInputInterrupted ==
    /\ Reading
    /\ foregroundMode' = handle_SIGTSTP(foregroundMode).foregroundMode
    /\ notice' = handle_SIGTSTP(foregroundMode).notice
    /\ userInput' = << >>
    /\ UNCHANGED <<loopVars, command>>

\* getInput, lines 280-282, and main, lines 90-91: the newline ends the
\* line and parseCommand fills the Command.
ParseLine ==
    /\ Reading
    /\ \E junk \in BOOLEAN :
          command' = parseUserInput(userInput, foregroundMode, junk)
    /\ UNCHANGED <<loopVars, foregroundMode, notice, userInput>>

\* main, lines 134-136: the line is done with; the loop starts again.
NextPrompt ==
    /\ pc = "prompt" /\ command.parsed
    /\ userInput' = << >>
    /\ command' = NoCommand
    /\ UNCHANGED <<loopVars, foregroundMode, notice>>

ReaderNext ==
    \/ GetInputChar
    \/ GetInputInterrupted
    \/ ParseLine
    \/ NextPrompt

SpecParse == Init /\ [][ReaderNext]_vars

\* ============================================================ properties
BackgroundChildren == {p \in Pids : proc[p].bg /\ proc[p].st \in Unreaped}

\* C1: every non-zero slot of backgroundProcesses holds the pid of a
\* background child the shell has not yet reaped, and no pid occupies two
\* slots.  (Violated: the waitpid of executeCommand, line 483, reaps a
\* background child that has already terminated and leaves its slot.)
C1_JobTableInvariant ==
    /\ \A i \in Slots : backgroundProcesses[i] # 0 =>
           backgroundProcesses[i] \in BackgroundChildren
    /\ \A i, j \in Slots :
           (i # j /\ backgroundProcesses[i] # 0) =>
               backgroundProcesses[i] # backgroundProcesses[j]

\* C2: a terminated background child is reaped only by a turn of
\* cleanUpBackgroundProcesses that prints its 'background pid N is done'
\* line and leaves no slot holding its pid.  (Violated by the same waitpid.)
C2_ReportedOnceAndFreed ==
    [][\A p \in Pids :
          (proc[p].st = "zombie" /\ proc[p].bg /\ proc'[p].st = "free") =>
              (lastDone' = p /\ \A i \in Slots : backgroundProcesses'[i] # p)]_vars

C4_NoBackgroundJobInForegroundOnlyMode ==
    (pc = "wait" /\ cmd.runInBackground) => foregroundMode = 0

\* C5: right after the insertion on the table-full branch, slot zero holds
\* the new pid and every other slot is empty.  (Violated:
\* killBackgroundProcesses clears no slot.)
C5_OverflowClearsTable ==
    (pc = "wait" /\ overflow) =>
        /\ backgroundProcesses[0] = spawnPid
        /\ \A i \in Slots : i # 0 => backgroundProcesses[i] = 0

\* C6: between fork and exec no step flips a child's copy of the
\* foreground-only flag, that is, handle_SIGTSTP never runs in a child.
\* (Violated: the child has the shell's handler until
\* registerChildSignalHandlers has run, after redirectIO.)
C6_ChildNeverRunsHandler ==
    [][\A p \in Pids :
          (proc[p].st \in PreExec /\ proc'[p].st = proc[p].st) =>
              proc'[p].fgMode = proc[p].fgMode]_vars

\* C7: SIGINT never terminates the shell, and a child that SIGINT has
\* terminated is never a background child.
C7_InterruptPolicy ==
    /\ pc # "killed"
    /\ \A p \in Pids :
          (proc[p].st = "zombie" /\ proc[p].cause = "SIGINT") => ~proc[p].bg

\* A background child between fork and exec got a SIGINT and lives, while
\* another child, a foreground one, has been terminated by SIGINT.
C7_Witness ==
    /\ ShellRuns
    /\ \E p, q \in Pids :
          /\ proc[p].bg /\ proc[p].st \in PreExec /\ proc[p].ignoredInt
          /\ ~proc[q].bg /\ proc[q].st = "zombie"
          /\ proc[q].status = Signaled(SIGINT)

\* C8, as stated: status entered on two lines in a row prints the same
\* message twice.
C8_StatusIdempotent ==
    [][(StatusBuiltin /\ printed # NoMessage) => printed' = printed]_vars

\* C8, amended: status entered on two lines in a row prints the same
\* message twice, provided cleanUpBackgroundProcesses reaped no child after
\* the first of the two.
C8_StatusIdempotentWithoutReap ==
    [][(StatusBuiltin /\ printed # NoMessage /\ ~reapedBetween) =>
           printed' = printed]_vars

\* status has run on two lines in a row with no reap in between, with a
\* background job outstanding and Last Status other than its initial value.
C8_Witness ==
    /\ pc = "clean" /\ cmd.kind = "status" /\ quietRepeat
    /\ printed = printStatus(Signaled(SIGINT))
    /\ \E p \in BackgroundChildren : proc[p].st = "running"

\* C9, as stated: the exit built-in ends the shell with exit status 0.
C9_ExitStatusZero ==
    (pc = "done" /\ cmd.kind = "exit") => exitStatus = 0

\* C9, amended: the exit built-in ends the shell with exit status 0, unless
\* a kill of killBackgroundProcesses failed with an error other than ESRCH:
\* then the status is 1.
C9_ExitStatusZeroUnlessKillFails ==
    (pc = "done" /\ cmd.kind = "exit") =>
        exitStatus = (IF errno \in {"none", "ESRCH"} THEN 0 ELSE 1)

\* The exit built-in has ended the shell with status 0 although a kill
\* failed with ESRCH on a pid of the table that no process holds.
C9_Witness ==
    /\ pc = "done" /\ cmd.kind = "exit" /\ exitStatus = 0
    /\ errno = "ESRCH"
    /\ \E i \in Slots : /\ backgroundProcesses[i] # 0
                        /\ proc[backgroundProcesses[i]].st = "free"

\* C10, as stated: a child whose open or execvp failed has exit status 1,
\* the shell runs on, and after a foreground command that ended so Last
\* Status is 'exit value 1' until the next prompt.
C10_ChildFailureContained ==
    /\ \A p \in Pids :
          (proc[p].st = "zombie" /\ proc[p].cause \in FailureCauses) =>
              proc[p].status = Exited(1)
    /\ (~cmd.runInBackground /\ waited \in FailureCauses) =>
          /\ pc \in {"returned", "clean"}
          /\ printStatus(childStatus) = <<EXITED_MESSAGE, 1>>

\* C10, amended: a child whose open or execvp failed has exit status 1, the
\* shell runs on, and when executeCommand returns from a foreground command
\* that ended so Last Status is 'exit value 1'.
C10_ChildFailureContainedAtReturn ==
    /\ \A p \in Pids :
          (proc[p].st = "zombie" /\ proc[p].cause \in FailureCauses) =>
              proc[p].status = Exited(1)
    /\ (~cmd.runInBackground /\ waited \in FailureCauses) =>
          /\ pc \in {"returned", "clean"}
          /\ pc = "returned" => printStatus(childStatus) = <<EXITED_MESSAGE, 1>>

\* executeCommand has returned from a foreground command whose execvp
\* failed, Last Status is 'exit value 1', and a background child that ended
\* otherwise waits to be reaped.
C10_Witness ==
    /\ pc = "returned" /\ ~cmd.runInBackground /\ waited = "execvp"
    /\ childStatus = Exited(1)
    /\ \E p \in BackgroundChildren :
          proc[p].st = "zombie" /\ proc[p].status # Exited(1)

\* The '&' characters in the word w, and in the words of ws.
RECURSIVE AmpCount(_)
AmpCount(w) ==
    IF w = << >> THEN 0
    ELSE (IF Head(w) = RUN_IN_BACKGROUND_CHAR THEN 1 ELSE 0) + AmpCount(Tail(w))

RECURSIVE AmpCountAll(_, _)
AmpCountAll(a, i) ==
    IF i > MAX_NUM_ARGS THEN 0 ELSE AmpCount(a[i]) + AmpCountAll(a, i + 1)

\* C11: once a line is parsed, runInBackground is true exactly when the
\* line's last character is '&' and the foreground-only flag is clear, and
\* a final '&' is not among the arguments: the argument vector holds fewer
\* '&' characters than the line.  (Violated: a line with more words than
\* the Command has room for overwrites runInBackground.)
C11_BackgroundFlagParsing ==
    command.parsed =>
        /\ command.runInBackground <=>
               (LastIsAmp(userInput) /\ foregroundMode = 0)
        /\ LastIsAmp(userInput) =>
               AmpCountAll(command.args, 0) < AmpCount(userInput)

\* C20: once a line is parsed, at most MAX_NUM_ARGS pointers have been
\* stored through args, none of them behind the array, and the last
\* element of args, args[MAX_NUM_ARGS], is still the null pointer that ends
\* the vector.  (Violated: parseCommand counts no words.)
C20_ArgumentVectorBounds ==
    command.parsed =>
        /\ command.stored <= MAX_NUM_ARGS
        /\ command.args[MAX_NUM_ARGS] = NULL
        /\ ~command.outside

\* C12: once standard input is at its end at the prompt, the shell ends as
\* the exit built-in does.  (Violated: getInput never reports the end of
\* input, so main never leaves the loop.)
C12_EndOfInputIsExit == (pc = "eof") ~> (pc = "done")
\* C13: between blockSIGTSTP and unblockSIGTSTP in executeCommand the
\* shell has SIGTSTP masked, and no step taken while it is and stays masked
\* (the job-table insertion, the wait in progress, a signal that arrives)
\* changes the foreground-only flag or writes a notice; the step that
\* stores the child leaves the flag alone as well; and a step in which the
\* handler alone runs leaves the job table and childStatus as they were.
C13_WindowExcludesHandler ==
    /\ [](pc = "wait" => blocked)
    /\ [][ /\ (blocked /\ blocked') =>
               (foregroundMode' = foregroundMode /\ notice' = notice)
           /\ (pc = "parent" /\ pc' # "parent") =>
               (foregroundMode' = foregroundMode /\ notice' = notice)
           /\ (foregroundMode' # foregroundMode /\ pc' = pc) =>
               UNCHANGED <<backgroundProcesses, childStatus>> ]_vars

\* A SIGTSTP has arrived inside the window of a background launch and is
\* held: the handler has not run yet.
C13_Witness ==
    /\ pc = "wait" /\ blocked /\ pending
    /\ cmd.runInBackground /\ InTable(spawnPid)
    /\ notice = "none" /\ foregroundMode = 0

\* C14: a SIGTSTP that arrived while executeCommand had it blocked is still
\* pending for as long as the window lasts, and the step that ends the
\* window (the wait, the report and unblockSIGTSTP, before main goes back
\* for the next line) flips the foreground-only flag exactly once if one or
\* more such signals arrived and not at all if none did, and leaves nothing
\* pending.
C14_PendingToggleDeliveredOnce ==
    /\ []((pc = "wait" /\ deferred >= 1) => pending)
    /\ []((pc = "wait" /\ deferred = 0) => ~pending)
    /\ [][ (pc = "wait" /\ pc' # "wait") =>
             /\ pc' = "returned"
             /\ ~blocked' /\ ~pending'
             /\ foregroundMode' = IF deferred >= 1
                                  THEN Toggle(foregroundMode)
                                  ELSE foregroundMode
             /\ (deferred >= 1) => notice' = HandlerMessage(foregroundMode)
             /\ (deferred = 0) => notice' = notice ]_vars

\* executeCommand has returned for a foreground command during whose wait
\* two SIGTSTPs arrived; the handler has run once.
C14_Witness ==
    /\ pc = "returned" /\ ~cmd.runInBackground
    /\ deferred = 2 /\ ~pending /\ ~blocked
    /\ foregroundMode = 1 /\ notice = ENTER_FOREGROUND_MODE_MESSAGE

C16_ForegroundCompletion ==
    [][ (pc = "wait" /\ pc' = "returned" /\ ~cmd.runInBackground) =>
         /\ proc[spawnPid].st = "zombie" /\ ~proc[spawnPid].bg
         /\ proc'[spawnPid].st = "free"
         /\ \A q \in Pids : q # spawnPid => proc'[q] = proc[q]
         /\ childStatus' = proc[spawnPid].status
         /\ WIFSIGNALED(proc[spawnPid].status) =>
               reported' = <<TERMINATED_MESSAGE, WTERMSIG(proc[spawnPid].status)>>
         /\ WIFEXITED(proc[spawnPid].status) => reported' = NoMessage ]_vars

\* executeCommand has returned for a foreground command whose child SIGINT
\* terminated, while a background child that has already terminated is
\* still unreaped.
C16_Witness ==
    /\ pc = "returned" /\ ~cmd.runInBackground
    /\ childStatus = Signaled(SIGINT)
    /\ reported = <<TERMINATED_MESSAGE, SIGINT>>
    /\ \E q \in Pids : proc[q].bg /\ proc[q].st = "zombie"

\* C17: main prints the next prompt only out of cleanUpBackgroundProcesses,
\* when its loop has found no terminated child left; every line that was
\* read and is not exit is dispatched to a built-in or a blank-line skip
\* (then the clean-up), or to a fork (then the clean-up once executeCommand
\* has returned, unless fork fails and the shell exits); the clean-up is
\* left only for the prompt, so it runs once per line.  The step that
\* dispatches a blank or comment line creates no process, prints no status
\* and changes neither the job table nor childStatus.
C17_CleanUpAtEveryPromptBoundary ==
    [][ /\ (pc' = "prompt" /\ pc # "prompt") =>
               /\ pc \in {"returned", "clean"}
               /\ \A p \in Pids : proc[p].st # "zombie"
        /\ (pc = "prompt" /\ pc' # "prompt") => pc' \in {"dispatch", "eof"}
        /\ (pc = "dispatch" /\ pc' # "dispatch" /\ cmd.kind # "exit") =>
               \/ pc' = "clean" /\ cmd.kind \in {"blank", "cd", "status"}
               \/ pc' = "parent" /\ cmd.kind = "ext"
               \/ pc' = "done" /\ cmd.kind = "ext" /\ exitStatus' = 1
        /\ (pc = "wait" /\ pc' # "wait") => pc' = "returned"
        /\ (pc \in {"returned", "clean"} /\ pc' # pc) =>
               pc' \in {"clean", "prompt"}
        /\ (pc = "dispatch" /\ pc' # "dispatch" /\ cmd.kind = "blank") =>
               UNCHANGED <<proc, printed, backgroundProcesses, childStatus,
                           spawnPid>> ]_vars

\* The clean-up that follows a blank line has just reaped a background
\* child.
C17_Witness ==
    /\ pc = "clean" /\ cmd.kind = "blank"
    /\ lastDone # 0 /\ proc[lastDone].st = "free"

\* C18: every index at which backgroundProcesses is read or written is in
\* 0..MAX_NUM_BACKGROUND_PROCESSES-1: the for loops of the reap removal and
\* of the kill sweep, and, when a background child is about to be stored,
\* the reads of the free-slot search and the index of the insertion.
\* (Violated: with every slot occupied the search reads
\* backgroundProcesses[MAX_NUM_BACKGROUND_PROCESSES] before it tests the
\* index, line 464.)
C18_JobTableIndexBounds ==
    /\ LoopIndices(0) \subseteq Slots
    /\ (pc = "parent" /\ cmd.runInBackground) =>
          \A junk \in {0, 1} :
             /\ SearchReads(backgroundProcesses, 0, junk) \subseteq Slots
             /\ InsertIndex(FreeSlotSearch(backgroundProcesses, 0, junk))
                   \in Slots

\* C19: whenever killBackgroundProcesses is about to run, for exit or for
\* a background child that finds the table full, every pid it calls kill
\* with is a background child the shell launched and has not yet reaped.
\* (Violated: the waitpid of executeCommand, line 483, reaps a background
\* child that has already terminated and leaves its pid in the table; the
\* next sweep signals that pid.)
C19_KillTargetsAreUnreapedChildren ==
    (\/ pc = "dispatch" /\ cmd.kind = "exit"
     \/ /\ pc = "parent" /\ cmd.runInBackground
        /\ FreeSlotSearch(backgroundProcesses, 0, 0)
              = MAX_NUM_BACKGROUND_PROCESSES)
    => \A res \in SweepResults(backgroundProcesses) :
          KillTargetsFrom(backgroundProcesses, 0, res)
             \subseteq BackgroundChildren

====
